---------------------------- MODULE Spec2Model ----------------------------
(***************************************************************************)
(* Model of lyman/workflows/mixedfx.py: the group mask, the watershed      *)
(* segmentation of the thresholded z-statistic with its lookup table, the  *)
(* peak table formatter and the MFXReport artifact protocol.               *)
(*                                                                         *)
(* Each function of the source is one action (MFXReport is one action per  *)
(* method it calls, in the order _run_interface calls them).  Every stage  *)
(* has its own specification: SpecMask, SpecSeg, SpecTable, SpecReport.    *)
(* The variables of the other stages stay at their idle values.            *)
(***************************************************************************)
EXTENDS Integers, Sequences, FiniteSets, TLC

VARIABLES
    stage,          \* which function this run executes: "mask", "seg", "table", "report"
    pc,             \* position inside the function
    mni_mask,       \* make_group_mask: template mask_data (bool per voxel)
    var_data,       \* make_group_mask: varcope stack, voxel -> subject -> value
    group_mask,     \* make_group_mask: the saved mask (int16 0/1 per voxel)
    z_data,         \* watershed_segment: thresholded zstat, voxel -> value
    localmax,       \* the localmax table: a sequence of rows keyed by column
    header,         \* the column names of the localmax file
    markers,        \* watershed_segment: the peak volume saved to peak_file
    seg,            \* watershed_segment: the segmentation saved to seg_file
    lut_data,       \* watershed_segment: the lookup table rows written
    table,          \* cluster_table: [rows, columns, calls] written to csv
    inputs,         \* MFXReport.inputs: file names, subjects, cope stack
    out_files,      \* MFXReport.out_files
    disk,           \* files written by MFXReport: name -> content kind
    calls,          \* the library routines the stage has called
    self_peaks,     \* MFXReport.peaks: the voxel rows _load_peaks returned
    boxplot         \* the box plot drawn by plot_boxes

vars == <<stage, pc, mni_mask, var_data, group_mask, z_data, localmax, header,
          markers, seg, lut_data, table, inputs, out_files, disk, calls, self_peaks,
          boxplot>>

-----------------------------------------------------------------------------
(* Bounds of the model *)

\* number of subjects along the last axis of the varcope stack
NSubj == 2
\* longest localmax table
MaxPeaks == 2
\* extent of the statistic volume along x (see Shape)
DimX == 2

\* shape of the template grid of make_group_mask
MaskShape == <<2, 1, 1>>
\* shape of the thresholded zstat volume of watershed_segment
Shape == <<DimX, 2, 1>>
\* values a varcope voxel takes (zero, positive, negative)
VarValues == {-1, 0, 1}
\* values a thresholded zstat voxel takes
ZValues == {0, 1, 2}

VoxelsOf(shape) ==
    {<<x, y, z>> : x \in 0..(shape[1] - 1), y \in 0..(shape[2] - 1),
                   z \in 0..(shape[3] - 1)}

\* numpy's C-order flat index of a voxel
Ravel(shape, v) == (v[1] * shape[2] + v[2]) * shape[3] + v[3]

Range(s) == {s[i] : i \in DOMAIN s}

SeqsUpTo(S, n) == UNION {[1..k -> S] : k \in 0..n}

Max(S) == CHOOSE m \in S : \A k \in S : k <= m

\* the columns FSL cluster writes to the localmax file
Columns == {"Cluster Index", "Value", "x", "y", "z"}

\* a localmax row whose voxel is v
Row(c, val, v) ==
    [k \in Columns |->
        CASE k = "Cluster Index" -> c
          [] k = "Value" -> val
          [] k = "x" -> v[1]
          [] k = "y" -> v[2]
          [] k = "z" -> v[3]]

\* pd.read_table(localmax_file)[["x", "y", "z"]].values
PeakCoords(tbl) == [i \in DOMAIN tbl |-> <<tbl[i]["x"], tbl[i]["y"], tbl[i]["z"]>>]

\* values of variables a stage does not use
Idle == <<>>

-----------------------------------------------------------------------------
(* make_group_mask *)

\* good_var with any() in place of all()
good_var_any(vd) == [v \in DOMAIN vd |-> \E s \in DOMAIN vd[v] : vd[v][s] # 0]

\* var_data.all(axis=-1): every subject's value is truthy (nonzero)
good_var(vd) == [v \in DOMAIN vd |-> \A s \in DOMAIN vd[v] : vd[v][s] # 0]

\* mask_data *= good_var, saved with data dtype int16
make_group_mask_data(mask_data, vd) ==
    LET good == good_var(vd)
    IN  [v \in DOMAIN mask_data |-> IF mask_data[v] /\ good[v] THEN 1 ELSE 0]

InitMask ==
    /\ stage = "mask"
    /\ pc = "ready"
    /\ mni_mask \in [VoxelsOf(MaskShape) -> BOOLEAN]
    /\ var_data \in [VoxelsOf(MaskShape) -> [1..NSubj -> VarValues]]
    /\ group_mask = Idle /\ header = {}
    /\ z_data = Idle /\ localmax = Idle /\ markers = Idle /\ seg = Idle
    /\ lut_data = Idle /\ table = Idle /\ inputs = Idle /\ out_files = Idle
    /\ disk = Idle /\ calls = {} /\ boxplot = Idle /\ self_peaks = Idle

make_group_mask ==
    /\ stage = "mask"
    /\ pc = "ready"
    /\ group_mask' = make_group_mask_data(mni_mask, var_data)
    /\ pc' = "done"
    /\ UNCHANGED <<stage, mni_mask, var_data, z_data, localmax, header, markers, seg,
                   lut_data, table, inputs, out_files, disk, calls, boxplot,
                   self_peaks>>

SpecMask == InitMask /\ [][make_group_mask]_vars

-----------------------------------------------------------------------------
(* watershed_segment *)

Voxels == VoxelsOf(Shape)

\* marker_labels without the + 1
marker_labels_zero_based(n) == [i \in 1..n |-> i - 1]

\* marker_labels handed out from the last row to the first
marker_labels_reversed(n) == [i \in 1..n |-> n + 1 - i]

\* np.arange(len(peaks)) + 1
marker_labels(n) == [i \in 1..n |-> i]

\* markers[tuple(peaks.T)] = labels: numpy assigns in order, so a voxel named
\* by several rows keeps the label of the last of them
place_markers(shape, peaks) ==
    LET labels == marker_labels(Len(peaks))
    IN  [v \in VoxelsOf(shape) |->
            IF \E i \in DOMAIN peaks : peaks[i] = v
            THEN labels[Max({i \in DOMAIN peaks : peaks[i] = v})]
            ELSE 0]

\* flood_mask with z_data >= 0
flood_mask_nonneg(zd) == [v \in DOMAIN zd |-> zd[v] >= 0]

\* mask=z_data > 0
flood_mask(zd) == [v \in DOMAIN zd |-> zd[v] > 0]

\* the neighbourhood of skimage's watershed at its default connectivity (1):
\* the face neighbours, in raveled order of the structuring element
Offsets == << <<-1, 0, 0>>, <<0, -1, 0>>, <<0, 0, -1>>,
              <<0, 0, 1>>, <<0, 1, 0>>, <<1, 0, 0>> >>

Shift(v, o) == <<v[1] + o[1], v[2] + o[2], v[3] + o[3]>>

\* the queue entry that is popped next: smallest image value, then oldest
PopMin(pq) ==
    CHOOSE e \in pq : \A f \in pq : e[1] < f[1] \/ (e[1] = f[1] /\ e[2] <= f[2])

\* one popped entry e floods its unlabelled in-mask neighbours, from offset k on
RECURSIVE FloodNeighbours(_, _, _, _, _)
FloodNeighbours(image, mask, st, e, k) ==
    IF k > Len(Offsets) THEN st
    ELSE LET n == Shift(e[3], Offsets[k])
         IN  IF n \notin DOMAIN image \/ st.output[n] # 0 \/ ~mask[n]
             THEN FloodNeighbours(image, mask, st, e, k + 1)
             ELSE FloodNeighbours(image, mask,
                      [output |-> [st.output EXCEPT ![n] = st.output[e[3]]],
                       pq |-> st.pq \cup {<<image[n], st.age, n>>},
                       age |-> st.age + 1], e, k + 1)

\* the priority flood: pop until the queue is empty
RECURSIVE Flood(_, _, _)
Flood(image, mask, st) ==
    IF st.pq = {} THEN st.output
    ELSE LET e == PopMin(st.pq)
         IN  Flood(image, mask,
                   FloodNeighbours(image, mask,
                       [st EXCEPT !.pq = st.pq \ {e}], e, 1))

\* skimage.morphology.watershed(image, markers, mask=mask): markers outside
\* the mask are dropped, the remaining ones are queued in raveled order and
\* flooded into the unlabelled voxels of the mask by increasing image value.
\* (The order in which equal-valued entries leave the queue is the library's;
\* the model takes insertion order.)
watershed(shape, image, mrk, mask) ==
    LET c_markers == [v \in DOMAIN mrk |-> IF mask[v] THEN mrk[v] ELSE 0]
        seeds == {v \in DOMAIN mrk : c_markers[v] # 0}
        pq0 == {<<image[v], Cardinality({w \in seeds :
                                  Ravel(shape, w) < Ravel(shape, v)}), v>> :
                v \in seeds}
    IN  Flood(image, mask,
              [output |-> c_markers, pq |-> pq0, age |-> Cardinality(seeds)])

\* stand-in for one channel of seaborn's husl_palette, in thousandths: a
\* triangle wave over the hue angle (the library's colour values are outside
\* the repository; only their range, 0 to 1, is relied on)
HueChannel(h) ==
    LET a == h % 360
        d == IF a <= 180 THEN a ELSE 360 - a
    IN  200 + (d * 700) \div 180

\* sns.husl_palette(n): n colours, evenly spaced hues
husl_palette(n) ==
    [i \in 1..n |->
        LET h == ((i - 1) * 360) \div n + 3
        IN  <<HueChannel(h), HueChannel(h + 240), HueChannel(h + 120)>>]

\* (colors * 255).astype(int) of one channel given in thousandths
To255(c) == (c * 255) \div 1000

\* lut_names with the roi names numbered from 0
lut_names_from_zero(n) ==
    [i \in 0..n |-> IF i = 0 THEN <<"Unknown">> ELSE <<"roi_", i - 1>>]

\* ["Unknown"] + ["roi_%d" % i for i in range(1, n + 1)]
lut_names(n) ==
    [i \in 0..n |-> IF i = 0 THEN <<"Unknown">> ELSE <<"roi_", i>>]

\* the lookup table of lines 301-310, one row per index 0..n
make_lut(mrk) ==
    LET n == Max({mrk[v] : v \in DOMAIN mrk})
        palette == husl_palette(n)
        colors == [i \in 0..n |->
                      (IF i = 0 THEN <<0, 0, 0>> ELSE palette[i]) \o <<0>>]
        names == lut_names(n)
    IN  [i \in 0..n |->
            [ID |-> i, ROI |-> names[i],
             R |-> To255(colors[i][1]), G |-> To255(colors[i][2]),
             B |-> To255(colors[i][3]), A |-> To255(colors[i][4])]]

\* localmax tables over a volume: every row has an in-bounds voxel; Value is
\* the statistic at that voxel
TablesOver(shape, zd, n) ==
    {[i \in DOMAIN ps |-> Row(1, zd[ps[i]], ps[i])] :
        ps \in SeqsUpTo(VoxelsOf(shape), n)}

InitSeg ==
    /\ stage = "seg"
    /\ pc = "ready"
    /\ z_data \in [Voxels -> ZValues]
    /\ localmax \in TablesOver(Shape, z_data, MaxPeaks)
    /\ header = Columns
    /\ markers = Idle /\ seg = Idle /\ lut_data = Idle
    /\ mni_mask = Idle /\ var_data = Idle /\ group_mask = Idle
    /\ table = Idle /\ inputs = Idle /\ out_files = Idle
    /\ disk = Idle /\ calls = {} /\ boxplot = Idle /\ self_peaks = Idle

\* peak_columns naming every column of the file
peak_columns_all == Columns

\* the columns watershed_segment and _load_peaks select: [["x", "y", "z"]]
peak_columns == {"x", "y", "z"}

\* the columns cluster_table selects (line 504)
table_columns == {"Cluster Index", "Value", "x", "y", "z"}

\* the selection of line 275 raises KeyError when a selected column is not
\* in the file: the function ends there, before any file is written
watershed_segment ==
    /\ stage = "seg"
    /\ pc = "ready"
    /\ IF peak_columns \subseteq header
       THEN /\ LET peaks == PeakCoords(localmax)
                   zeros == [v \in Voxels |-> 0]
               IN  IF Len(peaks) # 0
                   THEN LET m == place_markers(Shape, peaks)
                        IN  /\ markers' = m
                            /\ seg' = watershed(Shape, [v \in Voxels |-> -z_data[v]],
                                                m, flood_mask(z_data))
                            /\ calls' = calls \cup {"watershed"}
                            /\ lut_data' = make_lut(m)
                   ELSE /\ markers' = zeros
                        /\ seg' = zeros
                        /\ calls' = calls
                        /\ lut_data' = make_lut(zeros)
            /\ pc' = "done"
       ELSE /\ pc' = "error"
            /\ UNCHANGED <<markers, seg, calls, lut_data>>
    /\ UNCHANGED <<stage, mni_mask, var_data, group_mask, z_data, localmax, header,
                   table, inputs, out_files, disk, boxplot, self_peaks>>

SpecSeg == InitSeg /\ [][watershed_segment]_vars

SegDone == stage = "seg" /\ pc = "done"

NPeaks == Len(localmax)

PeakVoxel(i) == PeakCoords(localmax)[i]

MaxLabel == Max({seg[v] : v \in Voxels})

\* C2 as stated: the maximum label of the segmentation is N for every table
\* of N > 0 in-bounds rows, and the segmentation is all zero (no watershed
\* attempted) for N = 0.
C2_Original ==
    SegDone =>
        /\ NPeaks > 0 => MaxLabel = NPeaks
        /\ NPeaks = 0 => (\A v \in Voxels : seg[v] = 0) /\ "watershed" \notin calls

\* C2: the maximum label of the segmentation is N when N > 0 and the
\* statistic at the voxel of the last row is strictly positive, and is below N
\* when it is not; for N = 0 the segmentation is all zero and no watershed is
\* attempted.
C2_MaxLabel ==
    SegDone =>
        /\ (NPeaks > 0 /\ z_data[PeakVoxel(NPeaks)] > 0) => MaxLabel = NPeaks
        /\ (NPeaks > 0 /\ z_data[PeakVoxel(NPeaks)] <= 0) => MaxLabel < NPeaks
        /\ NPeaks > 0 => "watershed" \in calls
        /\ NPeaks = 0 => (\A v \in Voxels : seg[v] = 0) /\ "watershed" \notin calls

\* a table of several rows whose flood has labelled more than the peak voxels
C2_Witness ==
    /\ SegDone
    /\ NPeaks >= 2
    /\ MaxLabel = NPeaks
    /\ \E v \in Voxels : seg[v] # 0 /\ markers[v] = 0
    /\ \E v \in Voxels : seg[v] = 0

\* C3: for N >= 0 peaks the lookup table has exactly N+1 rows with ids
\* 0..N in order; row 0 is Unknown with R = G = B = 0 and A = 0; row i >= 1 is
\* named roi_<i>; the A column is 0 in every row.
C3_LookupTable ==
    SegDone =>
        /\ DOMAIN lut_data = 0..NPeaks
        /\ Cardinality(DOMAIN lut_data) = NPeaks + 1
        /\ \A i \in DOMAIN lut_data : lut_data[i].ID = i
        /\ lut_data[0] = [ID |-> 0, ROI |-> <<"Unknown">>,
                          R |-> 0, G |-> 0, B |-> 0, A |-> 0]
        /\ \A i \in DOMAIN lut_data : i >= 1 => lut_data[i].ROI = <<"roi_", i>>
        /\ \A i \in DOMAIN lut_data : lut_data[i].A = 0
        /\ \A i \in DOMAIN lut_data :
              {lut_data[i].R, lut_data[i].G, lut_data[i].B} \subseteq 0..255

\* a table with repeated voxels, one of them outside the flood region, still
\* gets a row per peak
C3_Witness ==
    /\ SegDone
    /\ NPeaks >= 2
    /\ DOMAIN lut_data = 0..NPeaks
    /\ MaxLabel < NPeaks

\* C6 as stated: for every table, each i in 1..N labels the voxel of the
\* i-th row in the markers volume, occurs in the segmentation, and is the
\* segmentation's label at that voxel.
C6_Original ==
    SegDone =>
        \A i \in 1..NPeaks :
            /\ markers[PeakVoxel(i)] = i
            /\ \E v \in Voxels : seg[v] = i
            /\ seg[PeakVoxel(i)] = i

\* C6: labels follow table order.  For each row i whose voxel is not named
\* again by a later row, the markers volume carries label i at that voxel;
\* when the statistic there is strictly positive as well, label i occurs in
\* the segmentation and is the segmentation's label at that voxel.
C6_LabelsByRow ==
    SegDone =>
        \A i \in 1..NPeaks :
            (\A j \in (i + 1)..NPeaks : PeakVoxel(j) # PeakVoxel(i)) =>
                /\ markers[PeakVoxel(i)] = i
                /\ z_data[PeakVoxel(i)] > 0 =>
                      /\ \E v \in Voxels : seg[v] = i
                      /\ seg[PeakVoxel(i)] = i

\* two rows in ascending order of value (not sorted by the statistic), both
\* labelled by their position
C6_Witness ==
    /\ SegDone
    /\ NPeaks = 2
    /\ PeakVoxel(1) # PeakVoxel(2)
    /\ 0 < z_data[PeakVoxel(1)] /\ z_data[PeakVoxel(1)] < z_data[PeakVoxel(2)]
    /\ seg[PeakVoxel(1)] = 1 /\ seg[PeakVoxel(2)] = 2

\* the voxels a flood from voxel m can reach through face-adjacent voxels of
\* strictly positive statistic
RECURSIVE PositiveRegion(_)
PositiveRegion(S) ==
    LET more == {v \in Voxels \ S :
                    /\ z_data[v] > 0
                    /\ \E k \in DOMAIN Offsets : Shift(v, Offsets[k]) \in S}
    IN  IF more = {} THEN S ELSE PositiveRegion(S \cup more)

\* C10: in the segmentation, every voxel whose statistic is not strictly
\* positive has label 0; every nonzero label is in 1..N, has its marker at a
\* strictly positive voxel and reaches the voxel from that marker through
\* strictly positive voxels.
C10_FloodRegion ==
    SegDone =>
        /\ \A v \in Voxels : z_data[v] <= 0 => seg[v] = 0
        /\ \A v \in Voxels :
              seg[v] # 0 =>
                  /\ seg[v] \in 1..NPeaks
                  /\ \E m \in Voxels :
                        /\ markers[m] = seg[v]
                        /\ z_data[m] > 0
                        /\ v \in PositiveRegion({m})

\* a peak on a voxel outside the flood region next to a flooded region: the
\* marker is there, the label is not
C10_Witness ==
    /\ SegDone
    /\ \E v \in Voxels : markers[v] # 0 /\ z_data[v] <= 0 /\ seg[v] = 0
    /\ \E v \in Voxels : seg[v] # 0 /\ markers[v] = 0

-----------------------------------------------------------------------------
(* cluster_table *)

\* voxels the rows of a peak table name (avg152T1 grid, 2 mm)
TableVoxels == {<<0, 0, 0>>, <<45, 63, 36>>, <<44, 63, 37>>}
\* cluster indices and peak values of the rows
TableClusters == {1, 2}
TableValues == {4, 5}

\* locator.vox_to_mni of one voxel: the affine of the 2 mm MNI template
vox_to_mni(v) == <<90 - 2 * v[1], 2 * v[2] - 126, 2 * v[3] - 72>>

\* locator.locate_peaks of one voxel: the atlas lookup keyed by the voxel
locate_peaks(v) == [region |-> <<"atlas", v>>, prob |-> <<"prob", v>>]

\* axis_of with the axes taken from the wrong end
axis_of_reversed(ax) == CASE ax = "x" -> 3 [] ax = "y" -> 2 [] ax = "z" -> 1

\* for i, ax in enumerate(["x", "y", "z"]): the row of mni_coords for axis ax
axis_of(ax) == CASE ax = "x" -> 1 [] ax = "y" -> 2 [] ax = "z" -> 3

\* df[["Cluster Index", "Value", "x", "y", "z"]] renamed, index named Peak:
\* pandas numbers the rows 0, 1, ... in file order
select_columns(tbl) ==
    [i \in DOMAIN tbl |->
        [Peak |-> i - 1, Cluster |-> tbl[i]["Cluster Index"],
         Value |-> tbl[i]["Value"],
         x |-> tbl[i]["x"], y |-> tbl[i]["y"], z |-> tbl[i]["z"]]]

\* lines 510-515: the locator's columns joined on the index, then x, y, z
\* overwritten from mni_coords = vox_to_mni(coords).T
add_locations(df) ==
    LET coords == [i \in DOMAIN df |-> <<df[i].x, df[i].y, df[i].z>>]
        loc_df == [i \in DOMAIN df |-> locate_peaks(coords[i])]
        mni_coords == [k \in 1..3 |-> [i \in DOMAIN df |-> vox_to_mni(coords[i])[k]]]
    IN  [i \in DOMAIN df |->
            [Peak |-> df[i].Peak, Cluster |-> df[i].Cluster, Value |-> df[i].Value,
             x |-> mni_coords[axis_of("x")][i],
             y |-> mni_coords[axis_of("y")][i],
             z |-> mni_coords[axis_of("z")][i],
             MaxProbRegion |-> loc_df[i].region, Prob |-> loc_df[i].prob]]

BaseColumns == <<"Cluster", "Value", "x", "y", "z">>

LocColumns == <<"MaxProb Region", "Prob">>

InitTable ==
    /\ stage = "table"
    /\ pc = "ready"
    /\ localmax \in {[i \in DOMAIN rs |-> Row(rs[i][1], rs[i][2], rs[i][3])] :
                       rs \in SeqsUpTo(TableClusters \X TableValues \X TableVoxels,
                                       MaxPeaks)}
    /\ header = Columns
    /\ table = Idle
    /\ z_data = Idle /\ markers = Idle /\ seg = Idle /\ lut_data = Idle
    /\ mni_mask = Idle /\ var_data = Idle /\ group_mask = Idle
    /\ inputs = Idle /\ out_files = Idle
    /\ disk = Idle /\ calls = {} /\ boxplot = Idle /\ self_peaks = Idle

\* the selection of line 504 raises KeyError when a selected column is not
\* in the file: the function ends there, before df.to_csv
cluster_table ==
    /\ stage = "table"
    /\ pc = "ready"
    /\ IF table_columns \subseteq header
       THEN /\ LET df == select_columns(localmax)
               IN  IF Len(df) # 0
                   THEN /\ table' = [index |-> "Peak",
                                     columns |-> BaseColumns \o LocColumns,
                                     rows |-> add_locations(df)]
                        /\ calls' = calls \cup {"locate_peaks", "vox_to_mni"}
                   ELSE /\ table' = [index |-> "Peak", columns |-> BaseColumns,
                                     rows |-> df]
                        /\ calls' = calls
            /\ pc' = "done"
       ELSE /\ pc' = "error"
            /\ UNCHANGED <<table, calls>>
    /\ UNCHANGED <<stage, mni_mask, var_data, group_mask, z_data, localmax, header,
                   markers, seg, lut_data, inputs, out_files, disk, boxplot,
                   self_peaks>>

SpecTable == InitTable /\ [][cluster_table]_vars

TableDone == stage = "table" /\ pc = "done"

\* C7: cluster_table writes one row per input row in the same order, Peak
\* being the 0-based row position and Cluster and Value copied; an empty input
\* gives the canonical columns, no rows and no locator or transform call; a
\* non-empty input has every row's x, y, z replaced by the world coordinates
\* of that row's voxel and the region columns appended.
C7_ClusterTable ==
    TableDone =>
        /\ Len(table.rows) = Len(localmax)
        /\ table.index = "Peak"
        /\ \A i \in 1..Len(localmax) :
              /\ table.rows[i].Peak = i - 1
              /\ table.rows[i].Cluster = localmax[i]["Cluster Index"]
              /\ table.rows[i].Value = localmax[i]["Value"]
        /\ Len(localmax) = 0 =>
              /\ table.columns = <<"Cluster", "Value", "x", "y", "z">>
              /\ table.rows = <<>>
              /\ calls = {}
        /\ Len(localmax) # 0 =>
              /\ table.columns =
                    <<"Cluster", "Value", "x", "y", "z", "MaxProb Region", "Prob">>
              /\ calls = {"locate_peaks", "vox_to_mni"}
              /\ \A i \in 1..Len(localmax) :
                    LET v == <<localmax[i]["x"], localmax[i]["y"], localmax[i]["z"]>>
                    IN  /\ table.rows[i].x = 90 - 2 * v[1]
                        /\ table.rows[i].y = 2 * v[2] - 126
                        /\ table.rows[i].z = 2 * v[3] - 72
                        /\ table.rows[i].MaxProbRegion = locate_peaks(v).region

\* a table of two different rows, the second in the lower-numbered cluster
C7_Witness ==
    /\ TableDone
    /\ Len(localmax) = 2
    /\ localmax[1]["Cluster Index"] > localmax[2]["Cluster Index"]
    /\ localmax[1]["x"] # localmax[2]["x"]
    /\ table.rows[2].Peak = 1
    /\ table.rows[2].x # localmax[2]["x"]

-----------------------------------------------------------------------------
(* MFXReport *)

\* radius of the dilation kernels (r=4 of _peaks_to_disks, _peaks_to_spheres)
dilate_r == 4

\* shape of the zstat volume the report dilates peaks in
ReportShape == <<10, 1, 1>>

RVoxels == VoxelsOf(ReportShape)

\* first-level file stems the workflow is run on
Stems == {"zstat1", "zstat2"}

\* subject lists handed to the report
SubjectLists == {<<"s01">>, <<"s01", "s02">>}

\* effect-size stacks: cope_data[v][s], the last axis indexing subjects
CopeStacks ==
    {[v \in RVoxels |-> [s \in 1..NSubj |-> c[1] * (v[1] + v[2]) + c[2] * s]] :
        c \in {<<0, 1>>, <<1, 1>>, <<2, -1>>}}

File(dir, base, ext) == [dir |-> dir, base |-> base, ext |-> ext]

\* seg_file of watershed_segment (lines 268-269): the zstat's base name with
\* _seg before the extension, in the working directory
seg_name(zstat_file) == File("watershed", zstat_file.base \o "_seg", ".nii.gz")

\* _png_name: fname_presuffix(fname, suffix + ".png", newpath=cwd, use_ext=False)
png_name(fname, suffix) == File("report", fname.base \o suffix, ".png")

\* op.realpath of a bare name: the name in the working directory
realpath(base, ext) == File("report", base, ext)

\* the inputs as the workflow wires them (lines 187-200): the mask of
\* make_group_mask, FLAMEO's zstat, FSL cluster's threshold file, and the
\* segmentation watershed_segment names after the threshold file
WiredInputs(stem, subjects, cope) ==
    LET thresh == File("cluster", stem \o "_threshold", ".nii.gz")
    IN  [mask_file |-> File("makemask", "group_mask", ".nii.gz"),
         zstat_file |-> File("flameo", stem, ".nii.gz"),
         zstat_thresh_file |-> thresh,
         seg_file |-> seg_name(thresh),
         subjects |-> subjects,
         cope_data |-> cope]

\* the 3-D kernel of _peaks_to_spheres: x**2 + y**2 + z**2 <= r**2
SphereDilator(rad) ==
    {o \in (-rad..rad) \X (-rad..rad) \X (-rad..rad) :
        o[1] * o[1] + o[2] * o[2] + o[3] * o[3] <= rad * rad}

\* the kernel of _peaks_to_disks: np.dstack([disk, disk, zeros]), a disk in
\* the plane of the peak and in the plane below it
DiskDilator(rad) ==
    {o \in (-rad..rad) \X (-rad..rad) \X (-1..1) :
        o[1] * o[1] + o[2] * o[2] <= rad * rad /\ o[3] <= 0}

\* binary_dilation(spot, dilator) of the single voxel peak, clipped to shape
binary_dilation(shape, peak, dilator) ==
    {v \in VoxelsOf(shape) :
        <<v[1] - peak[1], v[2] - peak[2], v[3] - peak[3]>> \in dilator}

\* _dilate_peaks: disk_data[disk] = i for i = 1..N in turn, so a voxel in
\* several dilations keeps the label of the last peak that covers it
RECURSIVE DilateLoop(_, _, _, _, _)
DilateLoop(shape, peaks, dilator, disk_data, i) ==
    IF i > Len(peaks) THEN disk_data
    ELSE LET d == binary_dilation(shape, peaks[i], dilator)
         IN  DilateLoop(shape, peaks, dilator,
                        [v \in VoxelsOf(shape) |-> IF v \in d THEN i ELSE disk_data[v]],
                        i + 1)

dilate_peaks(shape, peaks, dilator) ==
    DilateLoop(shape, peaks, dilator, [v \in VoxelsOf(shape) |-> 0], 1)

peaks_to_spheres(peaks) == dilate_peaks(ReportShape, peaks, SphereDilator(dilate_r))

peaks_to_disks(peaks) == dilate_peaks(ReportShape, peaks, DiskDilator(dilate_r))

RECURSIVE SumOver(_, _, _)
SumOver(cope, s, S) ==
    IF S = {} THEN 0
    ELSE LET v == CHOOSE w \in S : TRUE
         IN  cope[v][s] + SumOver(cope, s, S \ {v})

\* cope_data[peak_spheres == i].mean(axis=0): per subject, the mean over the
\* voxels labelled i, kept as <<sum, count>>; <<0, 0>> is the mean of no
\* voxels (numpy's nan)
sphere_mean(cope, peak_spheres, i) ==
    LET S == {v \in DOMAIN peak_spheres : peak_spheres[v] = i}
    IN  [s \in 1..NSubj |-> <<SumOver(cope, s, S), Cardinality(S)>>]

Reverse(s) == [k \in 1..Len(s) |-> s[Len(s) + 1 - k]]

\* peak_dists: one row per subject, one column per peak
peak_dists_of(cope, peak_spheres, n) ==
    [s \in 1..NSubj |-> [i \in 1..n |-> sphere_mean(cope, peak_spheres, i)[s]]]

\* sns.boxplot(data, vert=False): one box per column of the 2-D array data,
\* column k drawn at position k, counted from the bottom of the axes
boxes_of(data, n) == [k \in 1..n |-> [s \in DOMAIN data |-> data[s][k]]]

\* labels = np.arange(len(peaks))[::-1] + 1, given to the ticks bottom-up
yticklabels_of(n) == Reverse([k \in 1..n |-> k])

\* has_peaks with the branch always taken
has_peaks_always(peaks) == TRUE

\* if len(peaks):
has_peaks(peaks) == Len(peaks) # 0

\* placeholder_names with the peak overlay listed before the segmentation
placeholder_names_swapped(inp) ==
    <<png_name(inp.zstat_thresh_file, "_peaks"),
      png_name(inp.seg_file, ""),
      realpath("peak_boxplot", ".png")>>

\* fnames of lines 353-355
placeholder_names(inp) ==
    <<png_name(inp.seg_file, ""),
      png_name(inp.zstat_thresh_file, "_peaks"),
      realpath("peak_boxplot", ".png")>>

InitReport ==
    /\ stage = "report"
    /\ pc = "save_subject_list"
    /\ \E stem \in Stems, subjects \in SubjectLists, cope \in CopeStacks :
          inputs = WiredInputs(stem, subjects, cope)
    /\ localmax \in {[i \in DOMAIN ps |-> Row(1, 4, ps[i])] :
                       ps \in SeqsUpTo(RVoxels, MaxPeaks)}
    /\ header = Columns
    /\ out_files = <<>>
    /\ disk = <<>>
    /\ calls = {}
    /\ boxplot = Idle
    /\ self_peaks = Idle
    /\ markers = Idle /\ z_data = Idle /\ seg = Idle /\ lut_data = Idle /\ table = Idle
    /\ mni_mask = Idle /\ var_data = Idle /\ group_mask = Idle

\* the variables no method of MFXReport writes
ReportFixed == <<stage, mni_mask, var_data, group_mask, z_data, localmax, header,
                 markers, seg, lut_data, table, inputs>>

\* a file written under name with content of the given kind
Written(name, kind) ==
    [f \in DOMAIN disk \cup {name} |-> IF f = name THEN kind ELSE disk[f]]

save_subject_list ==
    /\ stage = "report" /\ pc = "save_subject_list"
    /\ LET subjects_fname == realpath("subjects", ".txt")
       IN  /\ disk' = Written(subjects_fname, "text")
           /\ out_files' = Append(out_files, subjects_fname)
    /\ pc' = "plot_mask"
    /\ UNCHANGED <<ReportFixed, calls, boxplot, self_peaks>>

plot_mask ==
    /\ stage = "report" /\ pc = "plot_mask"
    /\ LET out_fname == png_name(inputs.mask_file, "")
       IN  /\ out_files' = Append(out_files, out_fname)
           /\ disk' = Written(out_fname, "image")
    /\ calls' = calls \cup {"plot_mask"}
    /\ pc' = "plot_full_zstat"
    /\ UNCHANGED <<ReportFixed, boxplot, self_peaks>>

plot_full_zstat ==
    /\ stage = "report" /\ pc = "plot_full_zstat"
    /\ LET out_fname == png_name(inputs.zstat_file, "")
       IN  /\ out_files' = Append(out_files, out_fname)
           /\ disk' = Written(out_fname, "image")
    /\ calls' = calls \cup {"plot_full_zstat"}
    /\ pc' = "plot_thresh_zstat"
    /\ UNCHANGED <<ReportFixed, boxplot, self_peaks>>

plot_thresh_zstat ==
    /\ stage = "report" /\ pc = "plot_thresh_zstat"
    /\ LET out_fname == png_name(inputs.zstat_thresh_file, "")
       IN  /\ out_files' = Append(out_files, out_fname)
           /\ disk' = Written(out_fname, "image")
    /\ calls' = calls \cup {"plot_thresh_zstat"}
    /\ pc' = "_load_peaks"
    /\ UNCHANGED <<ReportFixed, boxplot, self_peaks>>

\* self.peaks = peaks = self._load_peaks(); if len(peaks): ... else: ...
\* the selection of line 447 raises KeyError when a selected column is not
\* in the file: _run_interface ends there and _list_outputs is not reached
load_peaks ==
    /\ stage = "report" /\ pc = "_load_peaks"
    /\ IF peak_columns \subseteq header
       THEN /\ self_peaks' = PeakCoords(localmax)
            /\ pc' = IF has_peaks(PeakCoords(localmax))
                     THEN "plot_watershed" ELSE "placeholders"
       ELSE /\ pc' = "error"
            /\ UNCHANGED self_peaks
    /\ UNCHANGED <<ReportFixed, out_files, disk, calls, boxplot>>

plot_watershed ==
    /\ stage = "report" /\ pc = "plot_watershed"
    /\ LET out_fname == png_name(inputs.seg_file, "")
       IN  /\ out_files' = Append(out_files, out_fname)
           /\ disk' = Written(out_fname, "image")
    /\ calls' = calls \cup {"plot_watershed"}
    /\ pc' = "plot_peaks"
    /\ UNCHANGED <<ReportFixed, boxplot, self_peaks>>

\* the disk image of _peaks_to_disks is drawn into the png and not kept
plot_peaks ==
    /\ stage = "report" /\ pc = "plot_peaks"
    /\ LET out_fname == png_name(inputs.zstat_thresh_file, "_peaks")
       IN  /\ out_files' = Append(out_files, out_fname)
           /\ disk' = Written(out_fname, "image")
    /\ calls' = calls \cup {"plot_peaks", "_peaks_to_disks"}
    /\ pc' = "plot_boxes"
    /\ UNCHANGED <<ReportFixed, boxplot, self_peaks>>

plot_boxes ==
    /\ stage = "report" /\ pc = "plot_boxes"
    /\ LET peaks == self_peaks
           peak_spheres == peaks_to_spheres(peaks)
           peak_dists == peak_dists_of(inputs.cope_data, peak_spheres, Len(peaks))
           out_fname == realpath("peak_boxplot", ".png")
       IN  /\ boxplot' = [peak_spheres |-> peak_spheres,
                          peak_dists |-> peak_dists,
                          boxes |-> boxes_of(Reverse(peak_dists), Len(peaks)),
                          yticklabels |-> yticklabels_of(Len(peaks))]
           /\ out_files' = Append(out_files, out_fname)
           /\ disk' = Written(out_fname, "image")
    /\ calls' = calls \cup {"plot_boxes", "_peaks_to_spheres"}
    /\ pc' = "done"
    /\ UNCHANGED <<ReportFixed, self_peaks>>

\* the else branch of _run_interface: three names appended, each file opened
\* for writing and closed
placeholders ==
    /\ stage = "report" /\ pc = "placeholders"
    /\ LET fnames == placeholder_names(inputs)
       IN  /\ out_files' = out_files \o fnames
           /\ disk' = [f \in DOMAIN disk \cup Range(fnames) |->
                          IF f \in Range(fnames) THEN "empty" ELSE disk[f]]
    /\ pc' = "done"
    /\ UNCHANGED <<ReportFixed, calls, boxplot, self_peaks>>

NextReport ==
    \/ save_subject_list
    \/ plot_mask
    \/ plot_full_zstat
    \/ plot_thresh_zstat
    \/ load_peaks
    \/ plot_watershed
    \/ plot_peaks
    \/ plot_boxes
    \/ placeholders

SpecReport == InitReport /\ [][NextReport]_vars

ReportDone == stage = "report" /\ pc = "done"


\* the artifact names of a run on the given first-level stem, in report order
ExpectedManifest(stem) ==
    <<File("report", "subjects", ".txt"),
      File("report", "group_mask", ".png"),
      File("report", stem, ".png"),
      File("report", stem \o "_threshold", ".png"),
      File("report", stem \o "_threshold_seg", ".png"),
      File("report", stem \o "_threshold_peaks", ".png"),
      File("report", "peak_boxplot", ".png")>>

\* C4: MFXReport returns the same ordered list of artifact names whether or
\* not the peak table is empty: subjects.txt, mask image, full statistic
\* overlay, thresholded overlay, segmentation overlay, peak overlay, box plot.
\* The list is built in that order (at every step it is a prefix of it), each
\* name appears once, every listed file has been written, and the branches
\* differ only in whether the last three files are empty.
C4_Manifest ==
    stage = "report" =>
        LET expected == ExpectedManifest(inputs.zstat_file.base)
        IN  /\ Len(out_files) <= Len(expected)
            /\ out_files = SubSeq(expected, 1, Len(out_files))
            /\ DOMAIN disk = Range(out_files)
            /\ pc = "done" =>
                  /\ out_files = expected
                  /\ Cardinality(Range(out_files)) = 7
                  /\ disk[out_files[1]] = "text"
                  /\ \A k \in 2..4 : disk[out_files[k]] = "image"
                  /\ \A k \in 5..7 :
                        disk[out_files[k]] = IF Len(localmax) = 0 THEN "empty" ELSE "image"

\* a finished report on an empty table and its full manifest
C4_Witness ==
    /\ ReportDone
    /\ Len(localmax) = 0
    /\ Len(out_files) = 7
    /\ disk[out_files[5]] = "empty"

\* C5: with an empty peak table the finished report has the three
\* placeholder names (segmentation overlay, peak overlay, box plot) as
\* zero-byte files, the two statistic overlays as images and the subject list
\* as text, and none of the segmentation, peak-disk or box-plot rendering ran.
C5_EmptyTable ==
    (ReportDone /\ Len(localmax) = 0) =>
        LET stem == inputs.zstat_file.base
        IN  /\ disk[File("report", stem \o "_threshold_seg", ".png")] = "empty"
            /\ disk[File("report", stem \o "_threshold_peaks", ".png")] = "empty"
            /\ disk[File("report", "peak_boxplot", ".png")] = "empty"
            /\ disk[File("report", stem, ".png")] = "image"
            /\ disk[File("report", stem \o "_threshold", ".png")] = "image"
            /\ disk[File("report", "subjects", ".txt")] = "text"
            /\ Cardinality({f \in DOMAIN disk : disk[f] = "empty"}) = 3
            /\ calls \cap {"plot_watershed", "plot_peaks", "plot_boxes",
                           "_peaks_to_disks", "_peaks_to_spheres"} = {}
            /\ boxplot = Idle
            /\ self_peaks = <<>>

\* a finished report on an empty table: the overlays drawn, the rest not
C5_Witness ==
    /\ ReportDone
    /\ Len(localmax) = 0
    /\ "plot_thresh_zstat" \in calls
    /\ "plot_boxes" \notin calls
    /\ Cardinality(DOMAIN disk) = 7

\* two means kept as <<sum, count>> are the same number (or both nan)
SameMean(a, b) == a[1] * b[2] = b[1] * a[2] /\ (a[2] = 0 <=> b[2] = 0)

\* two per-subject samples hold the same values, in any order
SameSample(a, b) ==
    \E f \in [DOMAIN a -> DOMAIN b] :
        /\ \A s, t \in DOMAIN a : s # t => f[s] # f[t]
        /\ \A s \in DOMAIN a : SameMean(a[s], b[f[s]])

\* the radius-r sphere around voxel p, clipped to the report volume
SphereAround(p) ==
    {v \in RVoxels :
        (v[1] - p[1]) * (v[1] - p[1]) + (v[2] - p[2]) * (v[2] - p[2])
        + (v[3] - p[3]) * (v[3] - p[3]) <= dilate_r * dilate_r}

\* no two rows of the table have spheres with a voxel in common
SpheresApart ==
    \A i, j \in 1..Len(localmax) :
        i # j => SphereAround(PeakCoords(localmax)[i])
                    \cap SphereAround(PeakCoords(localmax)[j]) = {}

\* C8: the box plot has one row per peak; the label of each row is the
\* 1-based table rank of the peak whose per-subject values the row draws;
\* rows are in table order, the first peak of the table in the highest row.
\* (Stated for the tables whose spheres are apart, where every row's values
\* are the mean over its own whole sphere.)
C8_BoxLabels ==
    (ReportDone /\ Len(localmax) > 0 /\ SpheresApart) =>
        LET n == Len(localmax)
        IN  /\ DOMAIN boxplot.boxes = 1..n
            /\ DOMAIN boxplot.yticklabels = 1..n
            /\ \A k \in 1..n :
                  SameSample(boxplot.boxes[k],
                             [s \in 1..NSubj |->
                                 boxplot.peak_dists[s][boxplot.yticklabels[k]]])
            /\ boxplot.yticklabels[n] = 1

\* C9: for every peak i of a non-empty table the voxels labelled i by
\* _dilate_peaks are exactly the radius-r sphere around the voxel of peak i,
\* clipped to the volume: never empty and containing that voxel, wherever the
\* other peaks are.  (Stated for the tables whose rows name different voxels.)
C9_WholeSphere ==
    (/\ ReportDone
     /\ Len(localmax) > 0
     /\ \A i, j \in 1..Len(localmax) :
           i # j => PeakCoords(localmax)[i] # PeakCoords(localmax)[j]) =>
        \A i \in 1..Len(localmax) :
            LET labelled == {v \in RVoxels : boxplot.peak_spheres[v] = i}
                p == PeakCoords(localmax)[i]
            IN  /\ labelled = SphereAround(p)
                /\ labelled # {}
                /\ p \in labelled

-----------------------------------------------------------------------------
(* a localmax file that lacks columns, read by each of the three stages *)

\* the column sets a localmax file may have
Headers == SUBSET Columns

\* a row of a file that has only the columns h
Restrict(row, h) == [k \in h |-> row[k]]

\* the statistic volumes of the runs on files with missing columns
ColumnVolumes ==
    {[v \in Voxels |-> 1], [v \in Voxels |-> IF v[1] = 0 THEN 2 ELSE 0]}

InitSegColumns ==
    /\ stage = "seg"
    /\ pc = "ready"
    /\ z_data \in ColumnVolumes
    /\ header \in Headers
    /\ localmax \in {[i \in DOMAIN t |-> Restrict(t[i], header)] :
                       t \in TablesOver(Shape, z_data, MaxPeaks)}
    /\ markers = Idle /\ seg = Idle /\ lut_data = Idle
    /\ mni_mask = Idle /\ var_data = Idle /\ group_mask = Idle
    /\ table = Idle /\ inputs = Idle /\ out_files = Idle
    /\ disk = Idle /\ calls = {} /\ boxplot = Idle /\ self_peaks = Idle

InitTableColumns ==
    /\ stage = "table"
    /\ pc = "ready"
    /\ header \in Headers
    /\ localmax \in {[i \in DOMAIN rs |->
                         Restrict(Row(rs[i][1], rs[i][2], rs[i][3]), header)] :
                       rs \in SeqsUpTo(TableClusters \X TableValues \X TableVoxels,
                                       MaxPeaks)}
    /\ table = Idle
    /\ z_data = Idle /\ markers = Idle /\ seg = Idle /\ lut_data = Idle
    /\ mni_mask = Idle /\ var_data = Idle /\ group_mask = Idle
    /\ inputs = Idle /\ out_files = Idle
    /\ disk = Idle /\ calls = {} /\ boxplot = Idle /\ self_peaks = Idle

InitReportColumns ==
    /\ stage = "report"
    /\ pc = "save_subject_list"
    /\ inputs = WiredInputs("zstat1", <<"s01", "s02">>,
                            [v \in RVoxels |-> [s \in 1..NSubj |-> v[1] + s]])
    /\ header \in Headers
    /\ localmax \in {[i \in DOMAIN ps |-> Restrict(Row(1, 4, ps[i]), header)] :
                       ps \in SeqsUpTo(RVoxels, MaxPeaks)}
    /\ out_files = <<>>
    /\ disk = <<>>
    /\ calls = {}
    /\ boxplot = Idle
    /\ self_peaks = Idle
    /\ markers = Idle /\ z_data = Idle /\ seg = Idle /\ lut_data = Idle /\ table = Idle
    /\ mni_mask = Idle /\ var_data = Idle /\ group_mask = Idle

InitColumns == InitSegColumns \/ InitTableColumns \/ InitReportColumns

NextColumns ==
    \/ watershed_segment
    \/ cluster_table
    \/ save_subject_list
    \/ plot_mask
    \/ plot_full_zstat
    \/ plot_thresh_zstat
    \/ load_peaks
    \/ plot_watershed
    \/ plot_peaks
    \/ plot_boxes
    \/ placeholders

SpecColumns == InitColumns /\ [][NextColumns]_vars

\* a column of the five is not in the file
ColumnMissing == ~(Columns \subseteq header)

\* the artifacts MFXReport writes before it reads the peak table
EarlyArtifacts ==
    <<File("report", "subjects", ".txt"),
      File("report", "group_mask", ".png"),
      File("report", inputs.zstat_file.base, ".png"),
      File("report", inputs.zstat_file.base \o "_threshold", ".png")>>

\* C11 as stated: with any of the five columns missing, each of the three
\* stages aborts: it never returns a result, substitutes nothing, and has
\* written none of its output artifacts when it aborts.
C11_Original ==
    (stage \in {"seg", "table", "report"} /\ ColumnMissing) =>
        /\ pc # "done"
        /\ pc = "error" =>
              /\ seg = Idle /\ markers = Idle /\ lut_data = Idle
              /\ table = Idle
              /\ disk = <<>>

\* C11: a stage aborts exactly when the file lacks a column that the stage
\* selects: cluster_table on any of the five, watershed_segment and MFXReport
\* on x, y or z only (without Cluster Index or Value they run to the end).
\* An aborted stage returns nothing and substitutes nothing.
\* watershed_segment and cluster_table abort with none of their artifacts
\* written; MFXReport aborts after subjects.txt and the mask, full and
\* thresholded statistic images are written, and writes nothing further.
C11_MissingColumn ==
    /\ stage = "seg" =>
          /\ pc = "error" => ~({"x", "y", "z"} \subseteq header)
          /\ pc = "done" => {"x", "y", "z"} \subseteq header
          /\ pc # "done" => seg = Idle /\ markers = Idle /\ lut_data = Idle /\ calls = {}
    /\ stage = "table" =>
          /\ pc = "error" => ColumnMissing
          /\ pc = "done" => ~ColumnMissing
          /\ pc # "done" => table = Idle /\ calls = {}
    /\ stage = "report" =>
          /\ pc = "error" =>
                /\ ~({"x", "y", "z"} \subseteq header)
                /\ out_files = EarlyArtifacts
                /\ DOMAIN disk = Range(EarlyArtifacts)
                /\ self_peaks = Idle
                /\ boxplot = Idle
                /\ calls = {"plot_mask", "plot_full_zstat", "plot_thresh_zstat"}
          /\ pc \in {"plot_watershed", "plot_peaks", "plot_boxes",
                     "placeholders", "done"} => {"x", "y", "z"} \subseteq header

\* MFXReport aborted on a file without its z column, four artifacts on disk
C11_Witness ==
    /\ stage = "report"
    /\ pc = "error"
    /\ header = Columns \ {"z"}
    /\ Len(localmax) = 2
    /\ Cardinality(DOMAIN disk) = 4

=============================================================================
